---- MODULE Spec2Model ----
(***************************************************************************)
(* Model of the eh_frame -> C code generator (src/src/gen.rs) and of the   *)
(* row extraction (src/src/ast.rs).                                        *)
(*                                                                         *)
(* The generator writes C text.  The text is modelled as the sequence of   *)
(* statements it consists of (one token per emitted statement, in emitted  *)
(* order), and the generated function _eh_elf is then executed on that     *)
(* token sequence with the semantics of C: an `if` whose test is false     *)
(* continues after its matching `else`, `return` leaves the function.      *)
(***************************************************************************)
EXTENDS Integers, Sequences, FiniteSets, TLC

VARIABLES
    rows,           \* UnwindTable.rows, the table handed to UnwindTable::gen
    w,              \* the writer: statements emitted so far
    st,             \* "init" | "generated" | "panicked" | "running" | "returned"
    panic,          \* "none" | "index" (rows[0] on an empty slice) | "unreachable"
    pc,             \* argument pc of _eh_elf
    ctx,            \* argument ctx of _eh_elf (input record)
    mem,            \* memory image behind the deref callback
    out,            \* *out_ctx
    assigned,       \* fields of *out_ctx the running call has written
    ip,             \* position of the running call in w
    exitRow,        \* row whose leaf executed the return (0: the code after the tree)
    readUnassigned, \* the call read out_ctx->rsp before writing it
    native,         \* a decoded gimli row handed to UnwindTableRow::parse
    parsed,         \* the row parse returned
    parseSt         \* "idle" | "ok" | "todo" (todo!() panicked)

vars == <<rows, w, st, panic, pc, ctx, mem, out, assigned, ip, exitRow,
          readUnassigned, native, parsed, parseSt>>

genVars == <<rows, w, st, panic, pc, ctx, mem, out, assigned, ip, exitRow,
             readUnassigned>>

parseVars == <<native, parsed, parseSt>>

----------------------------------------------------------------------------
(* Bounds *)

MaxRows == 4

MaxAddr == 5

----------------------------------------------------------------------------
(* ast.rs: Register, MachineRegister, UnwindTableRow *)

Undefined == [tag |-> "Undefined", reg |-> "none", offset |-> 0]

RegisterPlus(r, n) == [tag |-> "Register", reg |-> r, offset |-> n]

CfaOffset(n) == [tag |-> "CfaOffset", reg |-> "none", offset |-> n]

PltExpr == [tag |-> "PltExpr", reg |-> "none", offset |-> 0]

Unimplemented == [tag |-> "Unimplemented", reg |-> "none", offset |-> 0]

\* Display for MachineRegister: the name written into the C text
MachineRegisterName == [Rip |-> "rip", Rsp |-> "rsp", Rbp |-> "rbp", Rbx |-> "rbx", Ra |-> "ra"]

\* the Register values rows are built from: every variant, two bases, two offsets
Registers ==
    { Undefined, RegisterPlus("Rsp", 16), RegisterPlus("Rbp", 8),
      CfaOffset(-8), CfaOffset(-16), PltExpr, Unimplemented }

Row(s, e, cfa, rbp, ra) ==
    [start_address |-> s, end_address |-> e, cfa |-> cfa, rbp |-> rbp, ra |-> ra]

is_implemented(reg) == reg.tag # "Unimplemented"

is_defined(reg) == reg.tag # "Unimplemented" /\ reg.tag # "Undefined"

----------------------------------------------------------------------------
(* gen.rs: the emitted statements *)

NoExpr == [e |-> "none", reg |-> "none", off |-> 0]

Tok(k, lo, hi, field, e, v, row) ==
    [k |-> k, lo |-> lo, hi |-> hi, field |-> field, e |-> e, v |-> v, row |-> row]

IfTok(lo, hi) == Tok("if", lo, hi, "none", NoExpr, 0, 0)

ElseTok == Tok("else", 0, 0, "none", NoExpr, 0, 0)

EndTok == Tok("endif", 0, 0, "none", NoExpr, 0, 0)

AssignTok(field, e, row) == Tok("assign", 0, 0, field, e, 0, row)

FlagsTok(v, row) == Tok("flags", 0, 0, "none", NoExpr, v, row)

ReturnTok(row) == Tok("return", 0, 0, "none", NoExpr, 0, row)

\* PRE: the typedefs and the opening of _eh_elf
PRE == << Tok("pre", 0, 0, "none", NoExpr, 0, 0) >>

\* the literal POST assigns to out_ctx->flags
PostFlags == 7

\* POST: "out_ctx->flags = 7; return; }"
POST == << FlagsTok(PostFlags, 0), ReturnTok(0) >>

\* impl From<UnwindFlags> for u8: the bits are distinct, so | is +
B2N(b) == IF b THEN 1 ELSE 0

FlagsToU8_rbpShift3(flags) ==
    B2N(flags.rip) * 1 + B2N(flags.rsp) * 2 + B2N(flags.rbp) * 8
    + B2N(flags.rbx) * 8 + B2N(flags.error) * 128

FlagsToU8(flags) ==
    B2N(flags.rip) * 1 + B2N(flags.rsp) * 2 + B2N(flags.rbp) * 4
    + B2N(flags.rbx) * 8 + B2N(flags.error) * 128

\* Register::gen: the expression text, or the unreachable!() panic
RegisterGen(reg) ==
    CASE reg.tag = "CfaOffset" ->
            [panic |-> "none", e |-> [e |-> "deref_out_rsp", reg |-> "none", off |-> reg.offset]]
      [] reg.tag = "Register" ->
            [panic |-> "none",
             e |-> [e |-> "ctx_plus", reg |-> MachineRegisterName[reg.reg], off |-> reg.offset]]
      [] reg.tag = "PltExpr" ->
            [panic |-> "none", e |-> [e |-> "plt", reg |-> "none", off |-> 0]]
      [] OTHER -> [panic |-> "unreachable", e |-> NoExpr]

\* UnwindTableRow::gen, the flags it accumulates
RowFlags_noCfaError(row) ==
    [rip |-> is_defined(row.ra), rsp |-> is_implemented(row.cfa),
     rbp |-> is_defined(row.rbp), rbx |-> FALSE,
     error |-> ~is_implemented(row.ra)]

RowFlags(row) ==
    [rip |-> is_defined(row.ra), rsp |-> is_implemented(row.cfa),
     rbp |-> is_defined(row.rbp), rbx |-> FALSE,
     error |-> (~is_implemented(row.ra)) \/ (~is_implemented(row.cfa))]

\* "out_ctx-><field> = <reg.gen()>;"
EmitAssign(field, reg, idx) ==
    LET g == RegisterGen(reg)
    IN  IF g.panic # "none" THEN [panic |-> g.panic, toks |-> <<>>]
        ELSE [panic |-> "none", toks |-> << AssignTok(field, g.e, idx) >>]

EmitNothing == [panic |-> "none", toks |-> <<>>]

\* UnwindTableRow::gen: the leaf of row number idx
RowGen(row, idx) ==
    LET s1 == IF is_implemented(row.cfa) THEN EmitAssign("rsp", row.cfa, idx) ELSE EmitNothing
        s2 == IF is_defined(row.rbp) THEN EmitAssign("rbp", row.rbp, idx) ELSE EmitNothing
        s3 == IF is_defined(row.ra) THEN EmitAssign("rip", row.ra, idx) ELSE EmitNothing
    IN  IF s1.panic # "none" THEN [panic |-> s1.panic, toks |-> <<>>]
        ELSE IF s2.panic # "none" THEN [panic |-> s2.panic, toks |-> s1.toks]
        ELSE IF s3.panic # "none" THEN [panic |-> s3.panic, toks |-> s1.toks \o s2.toks]
        ELSE [panic |-> "none",
              toks |-> s1.toks \o s2.toks \o s3.toks
                       \o << FlagsTok(FlagsToU8(RowFlags(row)), idx), ReturnTok(idx) >>]

\* gen_rows: rows.split_at(rows.len() / 2)
SplitPoint_first(n) == 1

SplitPoint(n) == n \div 2

\* gen_rows: "if(0x{a.first.start} <= pc && pc < 0x{a.last.end}) {"
DispatchTest_lastStart(a) == IfTok(a[1].start_address, a[Len(a)].start_address)

DispatchTest(a) == IfTok(a[1].start_address, a[Len(a)].end_address)

\* gen_rows over the slice rs, whose first row is row number base + 1 of the table
RECURSIVE gen_rows(_, _)
gen_rows(rs, base) ==
    IF Len(rs) > 1 THEN
        LET mid == SplitPoint(Len(rs))
            a == SubSeq(rs, 1, mid)
            b == SubSeq(rs, mid + 1, Len(rs))
            ga == gen_rows(a, base)
            gb == gen_rows(b, base + mid)
            head == << DispatchTest(a) >> \o ga.toks
        IN  IF ga.panic # "none" THEN [panic |-> ga.panic, toks |-> head]
            ELSE IF gb.panic # "none"
                 THEN [panic |-> gb.panic, toks |-> head \o << ElseTok >> \o gb.toks]
            ELSE [panic |-> "none",
                  toks |-> head \o << ElseTok >> \o gb.toks \o << EndTok >>]
    ELSE IF Len(rs) = 0 THEN [panic |-> "index", toks |-> <<>>]
    ELSE RowGen(rs[1], base + 1)

\* UnwindTable::gen
UnwindTableGen(table) ==
    LET g == gen_rows(table, 0)
    IN  IF g.panic # "none" THEN [panic |-> g.panic, toks |-> PRE \o g.toks]
        ELSE [panic |-> "none", toks |-> PRE \o g.toks \o POST]

----------------------------------------------------------------------------
(* The generated function _eh_elf, executed on the emitted statements *)

\* the `else` that closes the `if` whose body starts at position i
RECURSIVE FindElse(_, _, _)
FindElse(toks, i, depth) ==
    IF i > Len(toks) THEN i
    ELSE IF toks[i].k = "if" THEN FindElse(toks, i + 1, depth + 1)
    ELSE IF toks[i].k = "endif" THEN FindElse(toks, i + 1, depth - 1)
    ELSE IF toks[i].k = "else" /\ depth = 0 THEN i
    ELSE FindElse(toks, i + 1, depth)

\* the word the deref callback returns for address a in memory image m
Mem(m, a) == 1000 + 100 * m + a

\* value of an emitted expression: "deref(out_ctx->rsp + n)", "ctx.<reg> + n",
\* "(((ctx.rip & 15) >= 11) ? 8 : 0) + ctx.rsp"
EvalExpr(e, c, o, m) ==
    CASE e.e = "deref_out_rsp" -> Mem(m, o.rsp + e.off)
      [] e.e = "ctx_plus" -> c[e.reg] + e.off
      [] e.e = "plt" -> (IF (c.rip % 16) >= 11 THEN 8 ELSE 0) + c.rsp
      [] OTHER -> 0

\* the input records, memory images and prior contents of out_ctx->rsp tried
Ctxs == [rip : {26, 27}, rsp : {32, 64}, rbp : {48}, rbx : {0}]

Mems == {0, 1}

Garbage == {0, 40}

----------------------------------------------------------------------------
(* The tables handed to the generator *)

ScenarioA == << RegisterPlus("Rsp", 16), Undefined, CfaOffset(-8) >>

PltRules == << PltExpr, CfaOffset(-16), Unimplemented >>

TreeRules == { ScenarioA, PltRules }

\* tables of n rows, sorted by start_address, start < end, pairwise disjoint,
\* gaps allowed, all inside [lo, MaxAddr)
RECURSIVE TablesFrom(_, _)
TablesFrom(n, lo) ==
    IF n = 0 THEN { <<>> }
    ELSE UNION { UNION { { << Row(s, e, p[1], p[2], p[3]) >> \o t :
                             p \in TreeRules, t \in TablesFrom(n - 1, e) } :
                         e \in (s + 1)..MaxAddr } :
                 s \in lo..(MaxAddr - 1) }

TreeTables == UNION { TablesFrom(n, 0) : n \in 0..MaxRows }

\* two-row tables whose first row takes every combination of Register values
LeafTables ==
    { << Row(1, 3, c, b, r), Row(3, 4, ScenarioA[1], ScenarioA[2], ScenarioA[3]) >> :
        c \in Registers, b \in Registers, r \in Registers }

Covered(table, a) ==
    \E i \in 1..Len(table) : table[i].start_address <= a /\ a < table[i].end_address

----------------------------------------------------------------------------
(* ast.rs: UnwindTableRow::parse *)

\* gimli::X86_64 DWARF register numbers
X86_64_RAX == 0

X86_64_RBX == 3

X86_64_RBP == 6

X86_64_RSP == 7

X86_64_RA == 16

\* impl From<gimli::Register> for MachineRegister
MachineRegisterFrom(reg) ==
    CASE reg = X86_64_RSP -> "Rsp"
      [] reg = X86_64_RBP -> "Rbp"
      [] reg = X86_64_RBX -> "Rbx"
      [] reg = X86_64_RA -> "Ra"
      [] OTHER -> "todo"

\* the match on row.cfa()
ParseCfa(cfa) ==
    IF cfa.kind = "RegisterAndOffset"
    THEN RegisterPlus(MachineRegisterFrom(cfa.register), cfa.offset)
    ELSE PltExpr

\* the match on row.register(..) used for rbp, rbx and ra
ParseRule(rule) ==
    CASE rule.kind = "Undefined" -> Undefined
      [] rule.kind = "Offset" -> CfaOffset(rule.offset)
      [] OTHER -> Unimplemented

\* gimli::CfaRule values tried
CfaRules ==
    { [kind |-> "RegisterAndOffset", register |-> r, offset |-> n] :
        r \in {X86_64_RAX, X86_64_RBX, X86_64_RBP, X86_64_RSP, X86_64_RA}, n \in {8, 16} }
    \cup { [kind |-> "Expression", register |-> 0, offset |-> 0] }

\* gimli::RegisterRule values tried: every kind
RegisterRuleKinds ==
    { "Undefined", "SameValue", "Offset", "ValOffset", "Register",
      "Expression", "ValExpression", "Architectural" }

RegisterRules ==
    { [kind |-> k, offset |-> IF k \in {"Offset", "ValOffset"} THEN -16 ELSE 0] :
        k \in RegisterRuleKinds }

NativeRows ==
    [start_address : {0}, cfa : CfaRules, rbp : RegisterRules,
     rbx : RegisterRules, ra : RegisterRules]

NoRow == [ip |-> 0, cfa |-> Undefined, rbp |-> Undefined, rbx |-> Undefined, ra |-> Undefined]

\* UnwindTableRow::parse on the decoded row handed in
ParseRow ==
    /\ parseSt = "idle"
    /\ LET cfa == ParseCfa(native.cfa)
       IN  IF cfa.reg = "todo"
           THEN /\ parseSt' = "todo"
                /\ parsed' = parsed
           ELSE /\ parseSt' = "ok"
                /\ parsed' = [ip |-> native.start_address, cfa |-> cfa,
                              rbp |-> ParseRule(native.rbp),
                              rbx |-> ParseRule(native.rbx),
                              ra |-> ParseRule(native.ra)]
    /\ UNCHANGED native
    /\ UNCHANGED genVars

----------------------------------------------------------------------------
(* State machine *)

NoCtx == [rip |-> 0, rsp |-> 0, rbp |-> 0, rbx |-> 0]

NoOut == [flags |-> 0, rip |-> 0, rsp |-> 0, rbp |-> 0, rbx |-> 0]

InitWith(tables, natives) ==
    /\ rows \in tables
    /\ w = <<>>
    /\ st = "init"
    /\ panic = "none"
    /\ pc = 0
    /\ ctx = NoCtx
    /\ mem = 0
    /\ out = NoOut
    /\ assigned = {}
    /\ ip = 0
    /\ exitRow = 0
    /\ readUnassigned = FALSE
    /\ native \in natives
    /\ parsed = NoRow
    /\ parseSt = "idle"

DefaultNative ==
    [start_address |-> 0,
     cfa |-> [kind |-> "Expression", register |-> 0, offset |-> 0],
     rbp |-> [kind |-> "Undefined", offset |-> 0],
     rbx |-> [kind |-> "Undefined", offset |-> 0],
     ra |-> [kind |-> "Undefined", offset |-> 0]]

Init == InitWith(TreeTables, {DefaultNative})

InitLeaf == InitWith(LeafTables, {DefaultNative})

InitParse == InitWith({ <<>> }, NativeRows)

\* UnwindTable::gen(w)
Gen ==
    /\ st = "init"
    /\ LET g == UnwindTableGen(rows)
       IN  /\ w' = g.toks
           /\ panic' = g.panic
           /\ st' = IF g.panic = "none" THEN "generated" ELSE "panicked"
    /\ UNCHANGED <<rows, pc, ctx, mem, out, assigned, ip, exitRow, readUnassigned>>
    /\ UNCHANGED parseVars

\* a caller invokes _eh_elf(ctx, out_ctx, pc, deref); a call depends on the
\* emitted text and its arguments only, so one call per behaviour covers all
Call ==
    /\ st = "generated"
    /\ \E a \in 0..MaxAddr, c \in Ctxs, m \in Mems, g \in Garbage :
          /\ pc' = a
          /\ ctx' = c
          /\ mem' = m
          /\ out' = [NoOut EXCEPT !.rsp = g]
    /\ assigned' = {}
    /\ ip' = Len(PRE) + 1
    /\ exitRow' = 0
    /\ readUnassigned' = FALSE
    /\ st' = "running"
    /\ UNCHANGED <<rows, w, panic>>
    /\ UNCHANGED parseVars

\* "if(lo <= pc && pc < hi) {"
ExecTest ==
    /\ st = "running"
    /\ w[ip].k = "if"
    /\ ip' = IF w[ip].lo <= pc /\ pc < w[ip].hi
             THEN ip + 1
             ELSE FindElse(w, ip + 1, 0) + 1
    /\ UNCHANGED <<rows, w, st, panic, pc, ctx, mem, out, assigned, exitRow, readUnassigned>>
    /\ UNCHANGED parseVars

\* "out_ctx-><field> = <expr>;"
ExecAssign ==
    /\ st = "running"
    /\ w[ip].k = "assign"
    /\ out' = [out EXCEPT ![w[ip].field] = EvalExpr(w[ip].e, ctx, out, mem)]
    /\ assigned' = assigned \cup {w[ip].field}
    /\ readUnassigned' = (readUnassigned \/ (w[ip].e.e = "deref_out_rsp" /\ "rsp" \notin assigned))
    /\ ip' = ip + 1
    /\ UNCHANGED <<rows, w, st, panic, pc, ctx, mem, exitRow>>
    /\ UNCHANGED parseVars

\* "out_ctx->flags = <v>;"
ExecFlags ==
    /\ st = "running"
    /\ w[ip].k = "flags"
    /\ out' = [out EXCEPT !.flags = w[ip].v]
    /\ assigned' = assigned \cup {"flags"}
    /\ ip' = ip + 1
    /\ UNCHANGED <<rows, w, st, panic, pc, ctx, mem, exitRow, readUnassigned>>
    /\ UNCHANGED parseVars

\* "return;"
ExecReturn ==
    /\ st = "running"
    /\ w[ip].k = "return"
    /\ st' = "returned"
    /\ exitRow' = w[ip].row
    /\ UNCHANGED <<rows, w, panic, pc, ctx, mem, out, assigned, ip, readUnassigned>>
    /\ UNCHANGED parseVars

Next == Gen \/ Call \/ ExecTest \/ ExecAssign \/ ExecFlags \/ ExecReturn

NextParse == ParseRow

Spec == Init /\ [][Next]_vars

SpecLeaf == InitLeaf /\ [][Next]_vars

SpecParse == InitParse /\ [][NextParse]_vars

----------------------------------------------------------------------------
(* Properties *)

Bit(v, i) == (v \div (2 ^ i)) % 2

InRange(r, a) == r.start_address <= a /\ a < r.end_address

\* row r's leaf contains an assignment to out_ctx-><field>
Emitted(r, field) ==
    \E j \in 1..Len(w) : w[j].k = "assign" /\ w[j].row = r /\ w[j].field = field

Concrete(reg) == reg.tag \in {"Register", "CfaOffset", "PltExpr"}

\* C1: in a sorted, non-overlapping table, a call whose pc lies in row i's
\* range [start_address, end_address) follows the emitted tests into row i's
\* leaf and returns from it, and from no other row's leaf.
C1_DispatchResolvesRow ==
    \A i \in 1..Len(rows) :
        (st = "returned" /\ InRange(rows[i], pc))
            => (exitRow = i /\ out.flags = FlagsToU8(RowFlags(rows[i])))

C1_Witness ==
    /\ st = "returned"
    /\ Len(rows) >= 4
    /\ InRange(rows[3], pc)
    /\ exitRow = 3

\* C2: the flags byte a row's leaf writes has bit 7 set exactly when the row's
\* CFA rule is Unimplemented or its return-address rule is Unimplemented; an
\* Undefined return address with an implemented CFA leaves bit 7 clear.
C2_ErrorBitIff ==
    /\ \A i \in 1..Len(w) :
          (w[i].k = "flags" /\ w[i].row > 0)
              => ((Bit(w[i].v, 7) = 1)
                    <=> (rows[w[i].row].cfa.tag = "Unimplemented"
                         \/ rows[w[i].row].ra.tag = "Unimplemented"))
    /\ (st = "returned" /\ exitRow > 0)
          => ((Bit(out.flags, 7) = 1)
                <=> (rows[exitRow].cfa.tag = "Unimplemented"
                     \/ rows[exitRow].ra.tag = "Unimplemented"))

C2_Witness ==
    /\ st = "returned"
    /\ exitRow = 1
    /\ rows[1].cfa.tag = "Unimplemented"
    /\ rows[1].ra.tag = "Undefined"
    /\ Bit(out.flags, 7) = 1

\* C3: a call returns through the code after the dispatch tree exactly when
\* its pc lies in no row's range; it runs a row's leaf only when pc is covered.
C3_FallbackIffUncovered ==
    st = "returned" => ((exitRow = 0) <=> ~Covered(rows, pc))

\* C4: the flags value written by the code after the dispatch tree is the
\* encoding of "error only": bit 7 set, bits 0..3 clear.
C4_FallbackWritesErrorOnly ==
    \A i \in 1..Len(w) :
        (w[i].k = "flags" /\ w[i].row = 0)
            => w[i].v = FlagsToU8([rip |-> FALSE, rsp |-> FALSE, rbp |-> FALSE,
                                   rbx |-> FALSE, error |-> TRUE])

\* C5: the leaf of a row whose CFA rule is Unimplemented assigns none of
\* out_ctx->rsp, out_ctx->rbp, out_ctx->rip and writes flags 0b1000_0000.
C5_UnsupportedCfaLeafIsErrorOnly ==
    \A i \in 1..Len(w) :
        (w[i].row > 0 /\ rows[w[i].row].cfa.tag = "Unimplemented")
            => /\ w[i].k # "assign"
               /\ w[i].k = "flags" => w[i].v = 128

\* C6: generation never reaches an unreachable!() arm of Register::gen.
C6_RegisterGenNeverUnreachable == panic # "unreachable"

\* value of a CFA rule on the input record
CfaValue(cfa, c) ==
    IF cfa.tag = "Register" THEN c[MachineRegisterName[cfa.reg]] + cfa.offset
    ELSE (IF (c.rip % 16) >= 11 THEN 8 ELSE 0) + c.rsp

\* C7: a call that returns from row r's leaf never read out_ctx->rsp before
\* the leaf assigned it, leaves out_ctx->rsp = value of r's CFA rule, and for
\* each of rbp / ra that is CfaOffset(n) leaves the memory word at CFA + n.
C7_LeafValues ==
    (st = "returned" /\ exitRow > 0) =>
        LET r == rows[exitRow]
            cfa == CfaValue(r.cfa, ctx)
        IN  /\ ~readUnassigned
            /\ r.cfa.tag \in {"Register", "PltExpr"} =>
                  /\ out.rsp = cfa
                  /\ r.rbp.tag = "CfaOffset" => out.rbp = Mem(mem, cfa + r.rbp.offset)
                  /\ r.ra.tag = "CfaOffset" => out.rip = Mem(mem, cfa + r.ra.offset)

\* C8: the flags byte of row r's leaf is ra_defined*1 + cfa_supported*2 +
\* fp_defined*4 + error*128, each of bits 0..2 is set exactly when the
\* matching assignment is in the leaf, and bits 3..6 are clear.
C8_FlagsLayout ==
    \A i \in 1..Len(w) :
        (w[i].k = "flags" /\ w[i].row > 0) =>
            LET r == w[i].row
                v == w[i].v
            IN  /\ v = B2N(Concrete(rows[r].ra)) * 1
                       + B2N(rows[r].cfa.tag # "Unimplemented") * 2
                       + B2N(Concrete(rows[r].rbp)) * 4
                       + B2N(rows[r].cfa.tag = "Unimplemented"
                             \/ rows[r].ra.tag = "Unimplemented") * 128
                /\ (Bit(v, 0) = 1) <=> Emitted(r, "rip")
                /\ (Bit(v, 1) = 1) <=> Emitted(r, "rsp")
                /\ (Bit(v, 2) = 1) <=> Emitted(r, "rbp")
                /\ \A b \in 3..6 : Bit(v, b) = 0

C8_Witness ==
    /\ st = "returned"
    /\ exitRow = 2
    /\ << rows[2].cfa, rows[2].rbp, rows[2].ra >> = ScenarioA
    /\ out.flags = 3
    /\ Concrete(rows[1].rbp)

\* greatest nesting of `if` in the emitted statements
RECURSIVE MaxDepth(_, _, _, _)
MaxDepth(toks, i, depth, mx) ==
    IF i > Len(toks) THEN mx
    ELSE IF toks[i].k = "if"
         THEN MaxDepth(toks, i + 1, depth + 1, IF depth + 1 > mx THEN depth + 1 ELSE mx)
    ELSE IF toks[i].k = "endif" THEN MaxDepth(toks, i + 1, depth - 1, mx)
    ELSE MaxDepth(toks, i + 1, depth, mx)

CeilLog2(n) == CHOOSE d \in 0..n : 2 ^ d >= n /\ (d = 0 \/ 2 ^ (d - 1) < n)

LeafFlags(toks) == SelectSeq(toks, LAMBDA t : t.k = "flags" /\ t.row > 0)

Tests(toks) == SelectSeq(toks, LAMBDA t : t.k = "if")

\* C9: for a table of n >= 1 rows the generator emits n leaves, one per row
\* in table order, n - 1 tests nested at most ceil(log2 n) deep; a two-row
\* table has one test, whose upper bound is the first row's end_address.
C9_TreeShape ==
    (st # "init" /\ panic = "none" /\ Len(rows) >= 1) =>
        /\ Len(LeafFlags(w)) = Len(rows)
        /\ \A j \in 1..Len(LeafFlags(w)) : LeafFlags(w)[j].row = j
        /\ Len(Tests(w)) = Len(rows) - 1
        /\ MaxDepth(w, 1, 0, 0) = CeilLog2(Len(rows))
        /\ Len(rows) = 2 =>
              /\ Tests(w)[1].lo = rows[1].start_address
              /\ Tests(w)[1].hi = rows[1].end_address

C9_Witness ==
    /\ st = "generated"
    /\ Len(rows) >= 4
    /\ Len(Tests(w)) = Len(rows) - 1
    /\ MaxDepth(w, 1, 0, 0) = CeilLog2(Len(rows))

\* C10: parse returns a row for every decoded row: CFA register+offset gives
\* Register(base, offset), CFA expression gives PltExpr, rule "offset" gives
\* CfaOffset, "undefined" gives Undefined, any other rule gives Unimplemented.
C10_ParseTotal ==
    parseSt # "idle" =>
        /\ parseSt = "ok"
        /\ parsed.cfa.tag = (IF native.cfa.kind = "RegisterAndOffset" THEN "Register" ELSE "PltExpr")
        /\ \A f \in {"rbp", "ra"} :
              parsed[f].tag = (CASE native[f].kind = "Offset" -> "CfaOffset"
                                 [] native[f].kind = "Undefined" -> "Undefined"
                                 [] OTHER -> "Unimplemented")

====
